---------------------------- MODULE Spec2Model ----------------------------
(***************************************************************************)
(* Model of the backend request pipeline of the Dex note taking app:       *)
(*   server.js       cors -> express.json() -> rateLimiter -> routes       *)
(*   rateLimiter.js  the admission middleware                              *)
(*   upstash.js      ratelimit = slidingWindow(100, '60 s') on a shared    *)
(*                   counter store                                         *)
(* Time is counted in ticks of the store's clock.  The limit and the       *)
(* window length are scaled down (100 -> Limit, 60 s -> WindowSize ticks). *)
(***************************************************************************)
EXTENDS Integers, Sequences, FiniteSets

VARIABLES now,      \* the clock of the shared counter store
          store,    \* identity -> log of time-stamped attempts (store side)
          rq,       \* server process -> the request it is handling
          checks,   \* history: identity -> every check the store evaluated
          passed,   \* history: the checks whose request was handed to next()
          boot,     \* the startup of the server process (server.js, connectDB)
          notes,    \* the notes collection: id -> note, or Absent
          nextId,   \* the next ObjectId the database hands out
          last,     \* the notes request handled last, with its response
          del200,   \* history: id -> the deleteNote requests answered 200 for it
          dels,     \* server process -> the deleteNote request it has in flight
          home,     \* the HomePage instance of the browser
          create,   \* the CreatePage instance of the browser
          detail    \* the NoteDetailPage instance of the browser

vars == <<now, store, rq, checks, passed, boot, notes, nextId, last, del200, dels,
          home, create, detail>>

\* the variables of the pages of the frontend
pageVars == <<home, create, detail>>

\* the variables of the request pipeline and of the limiter
gateVars == <<now, store, rq, checks, passed>>

\* the variables of the notes collection
noteVars == <<notes, nextId, last, del200, dels>>

-----------------------------------------------------------------------------
(* Bounds of the model *)
Limit      == 2     \* slidingWindow(100, ...) scaled down
WindowSize == 2     \* '60 s' scaled down, in ticks
MaxTime    == 4     \* the clock stops here
MaxChecks  == 4     \* checks the store evaluates in one behaviour

MaxLimitCalls == 5  \* direct calls of ratelimit.limit in SpecLimit
MaxClientChecks == 3 \* checks evaluated before the clients of SpecClients stop
MaxNotes   == 2     \* notes created in one behaviour
MaxInFlight == 2    \* requests a page is let to have in flight at once

(* Program constants *)
TooManyRequests == 429
RateLimitId     == "my-rate-limit"
TooManyMessage  == "Too many requests, please try again later"

Procs      == {"p1", "p2"}
Clients    == {"a", "b"}
Identities == {RateLimitId} \cup Clients
StoreErrors == {"StoreUnreachable", "StoreNoAnswer"}

(* The requests a client can send: method, path and the state of the body *)
Requests ==
  { [method |-> "GET",     path |-> "/health",    body |-> "none"],
    [method |-> "GET",     path |-> "/",          body |-> "none"],
    [method |-> "GET",     path |-> "/api/notes", body |-> "none"],
    [method |-> "POST",    path |-> "/api/notes", body |-> "json"],
    [method |-> "POST",    path |-> "/api/notes", body |-> "malformed"],
    [method |-> "OPTIONS", path |-> "/api/notes", body |-> "none"] }

GetNotes == [method |-> "GET", path |-> "/api/notes", body |-> "none"]

Faults == {"none", "send", "next"}
NoReq == [method |-> "-", path |-> "-", body |-> "none"]
NoRes == [status |-> 0, body |-> "", headers |-> {}]

Idle == [pc |-> "idle", req |-> NoReq, res |-> NoRes, snap |-> <<NoReq, NoRes>>,
         result |-> "none", err |-> "none", nextCalls |-> <<>>,
         storeOut |-> "none", ran |-> "none", nlimit |-> 0, k |-> 0,
         client |-> "a", identity |-> "none",
         gone |-> FALSE,     \* the client has disconnected
         fault |-> "none",   \* what throws in this request: res.json ("send"), next() ("next")
         mem |-> "none"]     \* what the process remembers of earlier requests

-----------------------------------------------------------------------------
(* The sliding window limiter (ratelimit.limit) *)

\* mutant: one counter shared by every identity
KeyShared(id) == RateLimitId

\* the key of the store under which the attempts of an identity are kept
Key(id) == id

\* mutant: the window edge taken one tick early
InWindowStrict(e, t) == t - e.t < WindowSize

\* mutant: entries never age out
InWindowNever(e, t) == TRUE

\* an entry is in the trailing window at time t unless it is older than the window
InWindow(e, t) == t - e.t <= WindowSize

\* entries older than the window are discarded
Prune(lg, t) == SelectSeq(lg, LAMBDA e : InWindow(e, t))

\* mutant: a fixed window counter, counting only the current bucket
WindowCountFixed(lg, t) ==
  Len(SelectSeq(lg, LAMBDA e : e.ok /\ e.t \div WindowSize = t \div WindowSize))

\* mutant: denied attempts counted as well
WindowCountAll(lg, t) == Len(SelectSeq(lg, LAMBDA e : InWindow(e, t)))

\* the admitted attempts inside the trailing window
WindowCount(lg, t) == Len(SelectSeq(lg, LAMBDA e : e.ok /\ InWindow(e, t)))

\* mutant: one admission too many
AdmitOffByOne(lg, t) == WindowCount(lg, t) <= Limit

\* the attempt is admitted while fewer than Limit admitted ones are in the window
Admit(lg, t) == WindowCount(lg, t) < Limit

\* mutant: the count is read but the admitted attempt is not recorded
CheckNoRecord(lg, t, rec) == [success |-> Admit(lg, t), log |-> Prune(lg, t)]

\* one atomic "record and count" step of the store; rec: whether a denied
\* attempt is recorded (marked denied) or not recorded at all
CheckAndAdmit(lg, t, rec) ==
  LET ok   == Admit(lg, t)
      kept == Prune(lg, t)
  IN  [success |-> ok,
       log     |-> IF ok \/ rec THEN Append(kept, [t |-> t, ok |-> ok]) ELSE kept]

\* mutant: an abandoned request is taken out of the count again
OnAbandonDecrement(lg) ==
  IF lg = <<>> THEN lg ELSE SubSeq(lg, 1, Len(lg) - 1)

\* what the gate does to the log of the store when a client disconnects: nothing
OnAbandon(lg) == lg

\* mutant: failing open
LimitFailOpen(e) == [result |-> "true", err |-> "none"]

\* what ratelimit.limit settles with when the store call failed with error e
LimitOnFailure(e) == [result |-> "rejected", err |-> e]

\* what ratelimit.limit settles with when the store answered
LimitOnAnswer(success) == [result |-> IF success THEN "true" ELSE "false", err |-> "none"]

-----------------------------------------------------------------------------
(* The middlewares registered in server.js, in order *)

\* cors(): answers a preflight itself, otherwise sets the CORS header and goes on
CorsMiddleware(r) ==
  IF r.req.method = "OPTIONS"
  THEN [r EXCEPT !.res = [status |-> 204, body |-> "",
                          headers |-> {"Access-Control-Allow-Origin"}],
                 !.pc = "done"]
  ELSE [r EXCEPT !.res.headers = @ \cup {"Access-Control-Allow-Origin"},
                 !.pc = "json"]

\* express.json(): parses the body into req.body, a malformed body goes to the
\* error path
JsonMiddleware(r) ==
  IF r.req.body = "malformed"
  THEN [r EXCEPT !.nextCalls = Append(@, "BadJson"), !.err = "BadJson", !.pc = "error"]
  ELSE [r EXCEPT !.req.body = IF @ = "json" THEN "parsed" ELSE @, !.pc = "limiter"]

\* mutant: the identity taken from the client of the request
rateLimiterCallPerClient(r) ==
  [r EXCEPT !.snap = <<r.req, r.res>>, !.nlimit = @ + 1, !.identity = r.client,
            !.pc = "await"]

\* rateLimiter up to its await: issues ratelimit.limit('my-rate-limit')
rateLimiterCall(r) ==
  [r EXCEPT !.snap = <<r.req, r.res>>, !.nlimit = @ + 1, !.identity = RateLimitId,
            !.pc = "await"]

\* mutant: the catch block goes on as if the request were allowed
rateLimiterSwallow(r) ==
  CASE r.result = "false" ->
         [r EXCEPT !.res.status = TooManyRequests, !.res.body = TooManyMessage,
                   !.pc = "done"]
    [] OTHER ->
         [r EXCEPT !.nextCalls = Append(@, "noarg"), !.pc = "route"]

\* mutant: the return before res.status(429) is missing
rateLimiterFallThrough(r) ==
  CASE r.result = "false" ->
         [r EXCEPT !.res.status = TooManyRequests, !.res.body = TooManyMessage,
                   !.nextCalls = Append(@, "noarg"), !.pc = "route"]
    [] r.result = "true" ->
         [r EXCEPT !.nextCalls = Append(@, "noarg"), !.pc = "route"]
    [] OTHER ->
         [r EXCEPT !.nextCalls = Append(@, r.err), !.pc = "error"]

\* mutant: an allowed request gets a rate limit header
rateLimiterHeader(r) ==
  CASE r.result = "false" ->
         [r EXCEPT !.res.status = TooManyRequests, !.res.body = TooManyMessage,
                   !.pc = "done"]
    [] r.result = "true" ->
         [r EXCEPT !.res.headers = @ \cup {"X-RateLimit-Remaining"},
                   !.nextCalls = Append(@, "noarg"), !.pc = "route"]
    [] OTHER ->
         [r EXCEPT !.nextCalls = Append(@, r.err), !.pc = "error"]

\* mutant: a failed check is tried again
rateLimiterRetry(r) ==
  CASE r.result = "false" ->
         [r EXCEPT !.res.status = TooManyRequests, !.res.body = TooManyMessage,
                   !.pc = "done"]
    [] r.result = "true" ->
         [r EXCEPT !.nextCalls = Append(@, "noarg"), !.pc = "route"]
    [] OTHER ->
         [r EXCEPT !.nlimit = @ + 1, !.result = "none", !.err = "none",
                   !.storeOut = "none", !.pc = "await"]

\* rateLimiter after its await, r.result being what ratelimit.limit settled with
\* a throw of res.status(429).json(...) or of next() happens inside the try
\* block, so the catch calls next(error) after it
rateLimiter(r) ==
  CASE r.result = "false" /\ r.fault = "send" ->
         [r EXCEPT !.res.status = TooManyRequests, !.err = "SendThrew",
                   !.nextCalls = Append(@, "SendThrew"), !.pc = "error"]
    [] r.result = "false" /\ r.fault # "send" ->
         [r EXCEPT !.res.status = TooManyRequests, !.res.body = TooManyMessage,
                   !.pc = "done"]
    [] r.result = "true" /\ r.fault = "next" ->
         [r EXCEPT !.nextCalls = @ \o <<"noarg", "NextThrew">>, !.err = "NextThrew",
                   !.pc = "error"]
    [] r.result = "true" /\ r.fault # "next" ->
         [r EXCEPT !.nextCalls = Append(@, "noarg"), !.pc = "route"]
    [] OTHER ->
         [r EXCEPT !.nextCalls = Append(@, r.err), !.pc = "error"]

\* the route that serves the request, after app.use(rateLimiter): every request
\* of Requests matches one of app.get('/health'), app.get('/') and the notes
\* router; what the notes controllers do with the database is not part of it
RouteHandler(r) ==
  [r EXCEPT !.res.status = IF r.req.method = "POST" THEN 201 ELSE 200,
            !.res.body = "payload", !.ran = "route", !.pc = "done"]

\* the framework's error path, reached by next(error)
ErrorHandler(r) ==
  [r EXCEPT !.res.status = IF r.err = "BadJson" THEN 400 ELSE 500,
            !.res.body = "error", !.ran = "error", !.pc = "done"]

-----------------------------------------------------------------------------
(* The startup of server.js: connectDB().then(() => app.listen(PORT)) *)

Booting   == [pc |-> "start", db |-> "none", exitCode |-> -1, attempts |-> 0]
Listening == [pc |-> "listening", db |-> "connected", exitCode |-> -1, attempts |-> 1]

-----------------------------------------------------------------------------
(* The notes collection and the controllers of notesController.js *)

Ok          == 200
Created     == 201
NotFound    == 404
ServerError == 500

NoteIds == 1..MaxNotes
\* the ids a request can carry: 0 is a string that is no ObjectId
IdInputs == 0..MaxNotes
\* what a request body holds for a field: nothing, null, "" or a text
FieldInputs == {"missing", "null", "", "t"}
Absent  == [title |-> "-", content |-> "-"]
NoOp    == [op |-> "none", id |-> 0, status |-> 0, had |-> FALSE, same |-> TRUE,
            dbOk |-> TRUE, was |-> FALSE, listed |-> <<>>]
\* no deleteNote request in flight
NoDel   == [pc |-> "idle", id |-> 0, status |-> 0, at |-> "none"]

\* the required validator of a String path: a string of length > 0
Required(v) == v \notin {"missing", "null", ""}

\* the validation of a document before save()
Validates(title, content) == Required(title) /\ Required(content)

\* a path of the update of findByIdAndUpdate: undefined keys are left out of
\* the update, every other value is set as it is (no validators are run)
SetField(old, v) == IF v = "missing" THEN old ELSE v

\* the answer of a controller: its status and the collection it leaves
Answer(st, ns, nid) == [status |-> st, notes |-> ns, nextId |-> nid]

getNoteById(ns, nid, id, dbOk) ==
  IF id \notin NoteIds \/ ~dbOk THEN Answer(ServerError, ns, nid)
  ELSE IF ns[id] = Absent THEN Answer(NotFound, ns, nid)
  ELSE Answer(Ok, ns, nid)

createNote(ns, nid, title, content, dbOk) ==
  IF ~Validates(title, content) \/ ~dbOk THEN Answer(ServerError, ns, nid)
  ELSE Answer(Created, [ns EXCEPT ![nid] = [title |-> title, content |-> content]],
              nid + 1)

updateNote(ns, nid, id, title, content, dbOk) ==
  IF id \notin NoteIds \/ ~dbOk THEN Answer(ServerError, ns, nid)
  ELSE IF ns[id] = Absent THEN Answer(NotFound, ns, nid)
  ELSE Answer(Ok, [ns EXCEPT ![id] = [title |-> SetField(@.title, title),
                                      content |-> SetField(@.content, content)]],
              nid)

\* mutant: the result of findByIdAndDelete is not looked at
deleteNoteNoCheck(ns, nid, id, dbOk) ==
  IF id \notin NoteIds \/ ~dbOk THEN Answer(ServerError, ns, nid)
  ELSE Answer(Ok, [ns EXCEPT ![id] = Absent], nid)

\* mutant: a soft delete, the note stays in the collection
deleteNoteSoft(ns, nid, id, dbOk) ==
  IF id \notin NoteIds \/ ~dbOk THEN Answer(ServerError, ns, nid)
  ELSE IF ns[id] = Absent THEN Answer(NotFound, ns, nid)
  ELSE Answer(Ok, ns, nid)

deleteNote(ns, nid, id, dbOk) ==
  IF id \notin NoteIds \/ ~dbOk THEN Answer(ServerError, ns, nid)
  ELSE IF ns[id] = Absent THEN Answer(NotFound, ns, nid)
  ELSE Answer(Ok, [ns EXCEPT ![id] = Absent], nid)

\* whether a note with id is stored in ns
Stored(ns, id) == id \in NoteIds /\ ns[id] # Absent

\* Note.find().sort({ createdAt: -1 }): the stored ids from n down, newest first
RECURSIVE FindSorted(_, _)
FindSorted(ns, n) ==
  IF n = 0 THEN <<>>
  ELSE (IF ns[n] # Absent THEN <<n>> ELSE <<>>) \o FindSorted(ns, n - 1)

getAllNotes(ns, nid, dbOk) ==
  IF ~dbOk THEN [status |-> ServerError, notes |-> ns, nextId |-> nid, body |-> <<>>]
  ELSE [status |-> Ok, notes |-> ns, nextId |-> nid, body |-> FindSorted(ns, MaxNotes)]

-----------------------------------------------------------------------------
(* The pages of the frontend: HomePage.jsx, CreatePage.jsx, NoteDetailPage.jsx *)

\* no answer to a request of the page yet
ApiPending == [resp |-> FALSE, status |-> -1, data |-> <<>>]

\* a request that failed without a response (error.response is undefined)
NetworkError == [resp |-> FALSE, status |-> 0, data |-> <<>>]

\* a response with status st and body d
Response(st, d) == [resp |-> TRUE, status |-> st, data |-> d]

\* the lists of notes GET /notes can return, newest first
NoteLists == {[i \in 1..n |-> n + 1 - i] : n \in 0..MaxNotes}

\* what a request of the home page can settle with
HomeResults ==
  {Response(Ok, d) : d \in NoteLists}
    \cup {Response(TooManyRequests, <<>>), Response(ServerError, <<>>), NetworkError}

\* axios rejects unless the response has a 2xx status
Rejected(x) == ~x.resp \/ x.status \notin {Ok, Created}

\* error.response?.status: 0 stands for undefined
OptionalStatus(x) == IF x.resp THEN x.status ELSE 0

\* HomePage as mounted: useState(false), useState([]), useState(true), with
\* the fetch of its effect pending
HomeMounted == [isRateLimited |-> FALSE, notes |-> <<>>, loading |-> TRUE,
                fetch |-> ApiPending, toasts |-> {}]

\* mutant: error.response.status read without the ?. and no finally block
fetchNotesUnguarded(h, x) ==
  IF ~Rejected(x)
  THEN [h EXCEPT !.fetch = x, !.loading = FALSE, !.notes = x.data,
                 !.isRateLimited = FALSE]
  ELSE IF ~x.resp THEN [h EXCEPT !.fetch = x]
  ELSE IF x.status = TooManyRequests
  THEN [h EXCEPT !.fetch = x, !.loading = FALSE, !.isRateLimited = TRUE]
  ELSE [h EXCEPT !.fetch = x, !.loading = FALSE,
                 !.toasts = @ \cup {"Failed to load notes"}]

\* fetchNotes after its await, x being what api.get('/notes') settled with
fetchNotes(h, x) ==
  LET done == [h EXCEPT !.fetch = x, !.loading = FALSE]
  IN  IF ~Rejected(x)
      THEN [done EXCEPT !.notes = x.data, !.isRateLimited = FALSE]
      ELSE IF OptionalStatus(x) = TooManyRequests
      THEN [done EXCEPT !.isRateLimited = TRUE]
      ELSE [done EXCEPT !.toasts = @ \cup {"Failed to load notes"}]

\* what HomePage renders below the Navbar
HomeView(h) ==
  (IF h.isRateLimited THEN {"RateLimitedUI"} ELSE {})
    \cup (IF h.loading THEN {"Loading"} ELSE {})
    \cup (IF Len(h.notes) = 0 /\ ~h.isRateLimited THEN {"NotesNotFound"} ELSE {})
    \cup (IF Len(h.notes) > 0 /\ ~h.isRateLimited THEN {"NotesGrid"} ELSE {})

\* what the user can have typed into a field: nothing, blanks, a text
TextInputs == {"", " ", "t"}

\* String.prototype.trim
Trim(v) == IF v = " " THEN "" ELSE v

\* what api.post('/notes') and api.put('/notes/:id') can settle with
SubmitResults ==
  {Response(Created, <<>>), Response(Ok, <<>>), Response(TooManyRequests, <<>>),
   Response(ServerError, <<>>), NetworkError}

\* CreatePage as mounted: useState(''), useState(''), useState(false); the
\* other fields record what its last run of handleSubmit did
CreateMounted == [title |-> "", content |-> "", loading |-> FALSE,
                  inflight |-> 0,        \* POST requests not yet settled
                  input |-> "none",      \* the form as submitted: "blank", "filled"
                  sent |-> FALSE,        \* api.post was called
                  result |-> ApiPending, \* what the request settled with
                  shown |-> "none",      \* the toast
                  uncaught |-> FALSE,    \* the handler ended in a rejection
                  navigated |-> FALSE]   \* navigate('/') was called

\* handleSubmit up to its await
handleSubmitCall(c) ==
  LET run == [c EXCEPT !.sent = FALSE, !.result = ApiPending, !.shown = "none",
                       !.uncaught = FALSE]
  IN  IF Trim(c.title) = "" \/ Trim(c.content) = ""
      THEN [run EXCEPT !.shown = "All fields are required"]
      ELSE [run EXCEPT !.loading = TRUE, !.sent = TRUE, !.inflight = @ + 1]

\* handleSubmit after its await, x being what api.post settled with; reading
\* error.response.status of an error without a response throws in the catch
\* block, the finally block runs all the same
handleSubmitSettled(c, x) ==
  LET fin == [c EXCEPT !.result = x, !.loading = FALSE, !.inflight = @ - 1]
  IN  IF ~Rejected(x)
      THEN [fin EXCEPT !.shown = "Note created successfully!", !.navigated = TRUE]
      ELSE IF ~x.resp THEN [fin EXCEPT !.uncaught = TRUE]
      ELSE IF x.status = TooManyRequests
      THEN [fin EXCEPT !.shown = "Slow down! You're creating notes too fast"]
      ELSE [fin EXCEPT !.shown = "Failed to create note"]

\* mutant: the submit button is never disabled
SubmitEnabledAlways(c) == TRUE

\* the submit button of CreatePage: disabled={loading}
SubmitEnabled(c) == ~c.loading

\* NoteDetailPage as mounted: useState(null), useState(true), useState(false)
DetailMounted == [note |-> Absent, loading |-> TRUE, saving |-> FALSE,
                  inflight |-> 0, input |-> "none", sent |-> FALSE,
                  result |-> ApiPending, shown |-> "none", navigated |-> FALSE]

\* the notes GET /notes/:id can return
DetailNotes == {[title |-> t, content |-> c] : t, c \in {"", "t"}}

\* fetchNote after its await
fetchNote(d, x) ==
  IF ~Rejected(x) THEN [d EXCEPT !.note = x.data, !.loading = FALSE]
  ELSE [d EXCEPT !.shown = "Failed to fetch the note", !.loading = FALSE]

\* mutant: handleSave without its validation
handleSaveCallUnchecked(d) ==
  [d EXCEPT !.result = ApiPending, !.shown = "none", !.saving = TRUE, !.sent = TRUE,
            !.inflight = @ + 1]

\* handleSave up to its await
handleSaveCall(d) ==
  LET run == [d EXCEPT !.sent = FALSE, !.result = ApiPending, !.shown = "none"]
  IN  IF Trim(d.note.title) = "" \/ Trim(d.note.content) = ""
      THEN [run EXCEPT !.shown = "Please add a title or content"]
      ELSE [run EXCEPT !.saving = TRUE, !.sent = TRUE, !.inflight = @ + 1]

\* handleSave after its await, x being what api.put settled with
handleSaveSettled(d, x) ==
  LET fin == [d EXCEPT !.result = x, !.saving = FALSE, !.inflight = @ - 1]
  IN  IF ~Rejected(x)
      THEN [fin EXCEPT !.shown = "Note updated successfully", !.navigated = TRUE]
      ELSE [fin EXCEPT !.shown = "Failed to update note"]

\* whether a form with these two fields is one the validation has to stop
Blank(t, c) == t \in {"", " "} \/ c \in {"", " "}

------------------------------------------------------------------------------
\* the request q of client c as it enters the middleware chain: nothing of the
\* request the process handled before (old) is kept
NewRequest(old, q, c) ==
  [Idle EXCEPT !.req = q, !.client = c, !.mem = old.mem, !.pc = "cors"]

\* the middleware chain of server.js, run up to its first suspension point
Dispatch(r) ==
  LET c == CorsMiddleware(r)
      j == JsonMiddleware(c)
  IN  IF c.pc = "done" THEN c
      ELSE IF j.pc = "error" THEN ErrorHandler(j)
      ELSE rateLimiterCall(j)

\* mutant: the process remembers a denial and goes on denying by itself
ResumeCached(r) ==
  LET m == rateLimiter(IF r.mem = "denied" THEN [r EXCEPT !.result = "false"] ELSE r)
  IN  IF m.pc = "error" THEN ErrorHandler(m)
      ELSE IF r.result = "false" THEN [m EXCEPT !.mem = "denied", !.result = r.result]
      ELSE [m EXCEPT !.result = r.result]

\* the continuation of rateLimiter and, on next(error), the error path
Resume(r) ==
  LET m == rateLimiter(r)
  IN  IF m.pc = "error" THEN ErrorHandler(m) ELSE m

-----------------------------------------------------------------------------
Init ==
  /\ now = 0
  /\ store = [i \in Identities |-> <<>>]
  /\ rq = [p \in Procs |-> Idle]
  /\ checks = [i \in Identities |-> <<>>]
  /\ passed = {}
  /\ boot = Listening
  /\ notes = [i \in NoteIds |-> Absent]
  /\ nextId = 1
  /\ last = NoOp
  /\ del200 = [i \in NoteIds |-> 0]
  /\ dels = [p \in Procs |-> NoDel]
  /\ home = HomeMounted
  /\ create = CreateMounted
  /\ detail = DetailMounted

Tick ==
  /\ now < MaxTime
  /\ now' = now + 1
  /\ UNCHANGED <<store, rq, checks, passed>>
  /\ UNCHANGED <<boot, noteVars, pageVars>>

\* a request arrives at process p and runs until rateLimiter awaits the store
Arrive(p) ==
  /\ boot.pc = "listening"
  /\ rq[p].pc \in {"idle", "done"}
  /\ \E q \in Requests :
       rq' = [rq EXCEPT ![p] = Dispatch(NewRequest(rq[p], q, "a"))]
  /\ UNCHANGED <<now, store, checks, passed>>
  /\ UNCHANGED <<boot, noteVars, pageVars>>

\* the same for a plain GET /api/notes
ArriveGet(p) ==
  /\ boot.pc = "listening"
  /\ rq[p].pc \in {"idle", "done"}
  /\ rq' = [rq EXCEPT ![p] = Dispatch(NewRequest(rq[p], GetNotes, "a"))]
  /\ UNCHANGED <<now, store, checks, passed>>
  /\ UNCHANGED <<boot, noteVars, pageVars>>

\* a GET /api/notes in whose handling res.json or next() may throw
ArriveFaulty(p) ==
  /\ boot.pc = "listening"
  /\ rq[p].pc \in {"idle", "done"}
  /\ \E f \in Faults :
       rq' = [rq EXCEPT ![p] =
                Dispatch([NewRequest(rq[p], GetNotes, "a") EXCEPT !.fault = f])]
  /\ UNCHANGED <<now, store, checks, passed>>
  /\ UNCHANGED <<boot, noteVars, pageVars>>

\* the store evaluates the call of p and the answer reaches ratelimit.limit
StoreAnswer(p) ==
  /\ rq[p].pc = "await"
  /\ Len(checks[rq[p].identity]) < MaxChecks
  /\ \E rec \in BOOLEAN :
       LET d == CheckAndAdmit(store[Key(rq[p].identity)], now, rec)
           s == LimitOnAnswer(d.success)
       IN  /\ store' = [store EXCEPT ![Key(rq[p].identity)] = d.log]
           /\ checks' = [checks EXCEPT ![rq[p].identity] =
                           Append(@, [t |-> now, ok |-> d.success, client |-> rq[p].client])]
           /\ rq' = [rq EXCEPT ![p] = [@ EXCEPT !.result = s.result, !.err = s.err,
                                                !.storeOut = "answered",
                                                !.k = Len(checks[rq[p].identity]) + 1,
                                                !.pc = "settled"]]
  /\ UNCHANGED <<now, passed>>
  /\ UNCHANGED <<boot, noteVars, pageVars>>

\* the call of p never reaches the store
StoreUnreachable(p) ==
  /\ rq[p].pc = "await"
  /\ LET s == LimitOnFailure("StoreUnreachable")
     IN  rq' = [rq EXCEPT ![p] = [@ EXCEPT !.result = s.result, !.err = s.err,
                                           !.storeOut = "failed", !.pc = "settled"]]
  /\ UNCHANGED <<now, store, checks, passed>>
  /\ UNCHANGED <<boot, noteVars, pageVars>>

\* the store evaluates the call of p but its answer never arrives
StoreNoAnswer(p) ==
  /\ rq[p].pc = "await"
  /\ Len(checks[rq[p].identity]) < MaxChecks
  /\ \E rec \in BOOLEAN :
       LET d == CheckAndAdmit(store[Key(rq[p].identity)], now, rec)
           s == LimitOnFailure("StoreNoAnswer")
       IN  /\ store' = [store EXCEPT ![Key(rq[p].identity)] = d.log]
           /\ checks' = [checks EXCEPT ![rq[p].identity] =
                           Append(@, [t |-> now, ok |-> d.success, client |-> rq[p].client])]
           /\ rq' = [rq EXCEPT ![p] = [@ EXCEPT !.result = s.result, !.err = s.err,
                                                !.storeOut = "failed",
                                                !.k = Len(checks[rq[p].identity]) + 1,
                                                !.pc = "settled"]]
  /\ UNCHANGED <<now, passed>>
  /\ UNCHANGED <<boot, noteVars, pageVars>>

\* ratelimit.limit has settled: the rest of rateLimiter runs
LimiterResume(p) ==
  /\ rq[p].pc = "settled"
  /\ rq' = [rq EXCEPT ![p] = [Resume(rq[p]) EXCEPT !.k = 0]]
  /\ passed' = IF rq'[p].pc = "route" THEN passed \cup {rq[p].k} ELSE passed
  /\ UNCHANGED <<now, store, checks>>
  /\ UNCHANGED <<boot, noteVars, pageVars>>

Route(p) ==
  /\ rq[p].pc = "route"
  /\ rq' = [rq EXCEPT ![p] = RouteHandler(rq[p])]
  /\ UNCHANGED <<now, store, checks, passed>>
  /\ UNCHANGED <<boot, noteVars, pageVars>>

\* one server process, every kind of request
Next ==
  \/ Tick
  \/ Arrive("p1")
  \/ StoreAnswer("p1")
  \/ StoreUnreachable("p1")
  \/ StoreNoAnswer("p1")
  \/ LimiterResume("p1")
  \/ Route("p1")

Spec == Init /\ [][Next]_vars

\* one server process whose response and next() can throw
NextFault ==
  \/ Tick
  \/ ArriveFaulty("p1")
  \/ StoreAnswer("p1")
  \/ StoreUnreachable("p1")
  \/ StoreNoAnswer("p1")
  \/ LimiterResume("p1")
  \/ Route("p1")

SpecFault == Init /\ [][NextFault]_vars

\* several server processes against the same store
NextConc ==
  \/ Tick
  \/ \E p \in Procs : ArriveGet(p)
  \/ \E p \in Procs : StoreAnswer(p)
  \/ \E p \in Procs : StoreUnreachable(p)
  \/ \E p \in Procs : StoreNoAnswer(p)
  \/ \E p \in Procs : LimiterResume(p)
  \/ \E p \in Procs : Route(p)

SpecConc == Init /\ [][NextConc]_vars

\* a GET /api/notes of any client arrives at process p
ArriveFrom(p) ==
  /\ boot.pc = "listening"
  /\ rq[p].pc \in {"idle", "done"}
  /\ Len(checks[RateLimitId]) < MaxClientChecks
  /\ \E c \in Clients :
       rq' = [rq EXCEPT ![p] = Dispatch(NewRequest(rq[p], GetNotes, c))]
  /\ UNCHANGED <<now, store, checks, passed>>
  /\ UNCHANGED <<boot, noteVars, pageVars>>

\* one server process, requests of several clients
NextClients ==
  \/ Tick
  \/ ArriveFrom("p1")
  \/ StoreAnswer("p1")
  \/ StoreUnreachable("p1")
  \/ StoreNoAnswer("p1")
  \/ LimiterResume("p1")
  \/ Route("p1")

SpecClients == Init /\ [][NextClients]_vars

\* the client of the request of p disconnects; the handlers go on regardless
Disconnect(p) ==
  /\ rq[p].pc \in {"await", "settled", "route"}
  /\ ~rq[p].gone
  /\ rq' = [rq EXCEPT ![p].gone = TRUE]
  /\ store' = [store EXCEPT ![Key(RateLimitId)] = OnAbandon(@)]
  /\ UNCHANGED <<now, checks, passed>>
  /\ UNCHANGED <<boot, noteVars, pageVars>>

\* the server process p is restarted: all it held in memory is lost
Restart(p) ==
  /\ rq[p].pc # "idle"
  /\ rq' = [rq EXCEPT ![p] = Idle]
  /\ UNCHANGED <<now, store, checks, passed>>
  /\ UNCHANGED <<boot, noteVars, pageVars>>

\* one server process with disconnecting clients and restarts
NextLife ==
  \/ Tick
  \/ ArriveGet("p1")
  \/ StoreAnswer("p1")
  \/ StoreUnreachable("p1")
  \/ StoreNoAnswer("p1")
  \/ LimiterResume("p1")
  \/ Route("p1")
  \/ Disconnect("p1")
  \/ Restart("p1")

SpecLife == Init /\ [][NextLife]_vars

\* a request served by a controller, with answer a
Serve(op, id, dbOk, a) ==
  /\ notes' = a.notes
  /\ nextId' = a.nextId
  /\ last' = [op |-> op, id |-> id, status |-> a.status, had |-> Stored(notes, id),
              same |-> a.notes = notes, dbOk |-> dbOk,
              was |-> id \in NoteIds /\ del200[id] > 0,
              listed |-> IF op = "list" THEN a.body ELSE <<>>]
  /\ del200' = IF op = "delete" /\ a.status = Ok
               THEN [del200 EXCEPT ![id] = @ + 1] ELSE del200
  /\ UNCHANGED dels
  /\ UNCHANGED <<boot, gateVars, pageVars>>

\* GET /api/notes
GetAllNotes ==
  /\ boot.pc = "listening"
  /\ \E dbOk \in BOOLEAN :
       Serve("list", 0, dbOk, getAllNotes(notes, nextId, dbOk))

\* GET /api/notes/:id
GetNoteById ==
  /\ boot.pc = "listening"
  /\ \E id \in IdInputs, dbOk \in BOOLEAN :
       Serve("get", id, dbOk, getNoteById(notes, nextId, id, dbOk))

\* POST /api/notes with the fields of its body taken from F
CreateNoteIn(F) ==
  /\ boot.pc = "listening"
  /\ nextId <= MaxNotes
  /\ \E title, content \in F, dbOk \in BOOLEAN :
       Serve("create", 0, dbOk, createNote(notes, nextId, title, content, dbOk))

\* POST /api/notes
CreateNote == CreateNoteIn(FieldInputs)

\* PUT /api/notes/:id with the fields of its body taken from F
UpdateNoteIn(F) ==
  /\ boot.pc = "listening"
  /\ \E id \in IdInputs, title, content \in F, dbOk \in BOOLEAN :
       Serve("update", id, dbOk, updateNote(notes, nextId, id, title, content, dbOk))

\* PUT /api/notes/:id
UpdateNote == UpdateNoteIn(FieldInputs)

\* DELETE /api/notes/:id
DeleteNote ==
  /\ boot.pc = "listening"
  /\ \E id \in IdInputs, dbOk \in BOOLEAN :
       Serve("delete", id, dbOk, deleteNote(notes, nextId, id, dbOk))

\* the requests of the notes API, one at a time
NextNotes == GetNoteById \/ GetAllNotes \/ CreateNote \/ UpdateNote \/ DeleteNote

SpecNotes == Init /\ [][NextNotes]_vars

\* DELETE /api/notes/:id arrives at process p: deleteNote calls
\* Note.findByIdAndDelete and awaits it
DeleteStart(p) ==
  /\ boot.pc = "listening"
  /\ dels[p].pc = "idle"
  /\ \E id \in IdInputs :
       dels' = [dels EXCEPT ![p] =
                  [pc |-> "db", id |-> id, status |-> 0,
                   at |-> IF Stored(notes, id) THEN "stored"
                          ELSE IF id \in NoteIds /\ del200[id] > 0 THEN "deleted"
                          ELSE "other"]]
  /\ UNCHANGED <<notes, nextId, last, del200>>
  /\ UNCHANGED <<boot, gateVars, pageVars>>

\* the database runs the findByIdAndDelete of p, one atomic operation
DeleteDb(p) ==
  /\ dels[p].pc = "db"
  /\ \E dbOk \in BOOLEAN :
       LET a == deleteNote(notes, nextId, dels[p].id, dbOk)
       IN  /\ notes' = a.notes
           /\ dels' = [dels EXCEPT ![p].pc = "answer", ![p].status = a.status]
  /\ UNCHANGED <<nextId, last, del200>>
  /\ UNCHANGED <<boot, gateVars, pageVars>>

\* deleteNote of p goes on after its await and responds
DeleteRespond(p) ==
  /\ dels[p].pc = "answer"
  /\ last' = [NoOp EXCEPT !.op = "delete", !.id = dels[p].id,
                          !.status = dels[p].status,
                          !.had = dels[p].at = "stored",
                          !.dbOk = ~(dels[p].status = ServerError /\ dels[p].id \in NoteIds),
                          !.was = dels[p].at = "deleted"]
  /\ del200' = IF dels[p].status = Ok
               THEN [del200 EXCEPT ![dels[p].id] = @ + 1] ELSE del200
  /\ dels' = [dels EXCEPT ![p] = NoDel]
  /\ UNCHANGED <<notes, nextId>>
  /\ UNCHANGED <<boot, gateVars, pageVars>>

\* the notes API with deleteNote requests of two processes in flight at once
NextDel ==
  \/ GetNoteById
  \/ GetAllNotes
  \/ CreateNoteIn({"", "t"})
  \/ UpdateNoteIn({"t"})
  \/ \E p \in Procs : DeleteStart(p)
  \/ \E p \in Procs : DeleteDb(p)
  \/ \E p \in Procs : DeleteRespond(p)

SpecDel == Init /\ [][NextDel]_vars

\* connectDB is called: mongoose.connect is awaited
connectDBCall(b) == [b EXCEPT !.pc = "connecting", !.attempts = @ + 1]

\* mongoose.connect resolved: connectDB resolves
connectDBOk(b) == [b EXCEPT !.pc = "connected", !.db = "connected"]

\* mutant: the catch swallows the failure and connectDB resolves
connectDBFailNoExit(b) == [b EXCEPT !.pc = "connected", !.db = "failed"]

\* mongoose.connect rejected: the catch ends the process with code 1
connectDBFail(b) == [b EXCEPT !.pc = "exited", !.db = "failed", !.exitCode = 1]

\* the then-callback of connectDB(): app.listen
ThenListen(b) == [b EXCEPT !.pc = "listening"]

\* the state in which server.js is started
InitBoot ==
  /\ now = 0
  /\ store = [i \in Identities |-> <<>>]
  /\ checks = [i \in Identities |-> <<>>]
  /\ rq = [p \in Procs |-> Idle]
  /\ passed = {}
  /\ boot = Booting
  /\ notes = [i \in NoteIds |-> Absent]
  /\ nextId = 1
  /\ last = NoOp
  /\ del200 = [i \in NoteIds |-> 0]
  /\ dels = [p \in Procs |-> NoDel]
  /\ home = HomeMounted
  /\ create = CreateMounted
  /\ detail = DetailMounted

StartUp ==
  /\ boot.pc = "start"
  /\ boot' = connectDBCall(boot)
  /\ UNCHANGED <<gateVars, noteVars, pageVars>>

ConnectOk ==
  /\ boot.pc = "connecting"
  /\ boot' = connectDBOk(boot)
  /\ UNCHANGED <<gateVars, noteVars, pageVars>>

ConnectFail ==
  /\ boot.pc = "connecting"
  /\ boot' = connectDBFail(boot)
  /\ UNCHANGED <<gateVars, noteVars, pageVars>>

Listen ==
  /\ boot.pc = "connected"
  /\ boot' = ThenListen(boot)
  /\ UNCHANGED <<gateVars, noteVars, pageVars>>

\* the start of the server followed by its serving of requests
NextBoot ==
  \/ StartUp
  \/ ConnectOk
  \/ ConnectFail
  \/ Listen
  \/ Tick
  \/ ArriveGet("p1")
  \/ StoreAnswer("p1")
  \/ StoreUnreachable("p1")
  \/ StoreNoAnswer("p1")
  \/ LimiterResume("p1")
  \/ Route("p1")

SpecBoot == InitBoot /\ [][NextBoot]_vars

\* the user opens the home page: HomePage mounts and its effect calls fetchNotes
HomeMount ==
  /\ home.fetch # ApiPending
  /\ home' = HomeMounted
  /\ UNCHANGED <<create, detail>>
  /\ UNCHANGED <<boot, gateVars, noteVars>>

\* api.get('/notes') of the home page settles
HomeFetchSettles ==
  /\ home.fetch = ApiPending
  /\ \E x \in HomeResults : home' = fetchNotes(home, x)
  /\ UNCHANGED <<create, detail>>
  /\ UNCHANGED <<boot, gateVars, noteVars>>

\* the user opens the create page: a new CreatePage mounts
CreateMount ==
  /\ create.inflight = 0
  /\ create # CreateMounted
  /\ create' = CreateMounted
  /\ UNCHANGED <<home, detail>>
  /\ UNCHANGED <<boot, gateVars, noteVars>>

\* the user types into the form of CreatePage
CreateType ==
  /\ ~create.navigated
  /\ \E t, c \in TextInputs : create' = [create EXCEPT !.title = t, !.content = c]
  /\ UNCHANGED <<home, detail>>
  /\ UNCHANGED <<boot, gateVars, noteVars>>

\* the user submits the form of CreatePage, which the button lets them do
CreateSubmit ==
  /\ ~create.navigated
  /\ SubmitEnabled(create)
  /\ create.inflight < MaxInFlight
  /\ create' = [handleSubmitCall(create) EXCEPT
                  !.input = IF Blank(create.title, create.content)
                            THEN "blank" ELSE "filled"]
  /\ UNCHANGED <<home, detail>>
  /\ UNCHANGED <<boot, gateVars, noteVars>>

\* a POST /notes of CreatePage settles
CreateSettles ==
  /\ create.inflight > 0
  /\ \E x \in SubmitResults : create' = handleSubmitSettled(create, x)
  /\ UNCHANGED <<home, detail>>
  /\ UNCHANGED <<boot, gateVars, noteVars>>

\* the user opens a note: a new NoteDetailPage mounts and fetches it
DetailMount ==
  /\ detail.inflight = 0
  /\ ~detail.loading
  /\ detail' = DetailMounted
  /\ UNCHANGED <<home, create>>
  /\ UNCHANGED <<boot, gateVars, noteVars>>

\* api.get('/notes/:id') of NoteDetailPage settles
DetailFetchSettles ==
  /\ detail.loading
  /\ \E x \in {Response(Ok, n) : n \in DetailNotes}
               \cup {Response(NotFound, <<>>), NetworkError} :
       detail' = fetchNote(detail, x)
  /\ UNCHANGED <<home, create>>
  /\ UNCHANGED <<boot, gateVars, noteVars>>

\* the user edits the note shown by NoteDetailPage
DetailType ==
  /\ ~detail.loading /\ detail.note # Absent /\ ~detail.navigated
  /\ \E t, c \in TextInputs :
       detail' = [detail EXCEPT !.note = [title |-> t, content |-> c]]
  /\ UNCHANGED <<home, create>>
  /\ UNCHANGED <<boot, gateVars, noteVars>>

\* the user clicks Save Changes, which the button (disabled={saving}) lets
\* them do
DetailSave ==
  /\ ~detail.loading /\ detail.note # Absent /\ ~detail.navigated
  /\ ~detail.saving
  /\ detail.inflight < MaxInFlight
  /\ detail' = [handleSaveCall(detail) EXCEPT
                  !.input = IF Blank(detail.note.title, detail.note.content)
                            THEN "blank" ELSE "filled"]
  /\ UNCHANGED <<home, create>>
  /\ UNCHANGED <<boot, gateVars, noteVars>>

\* a PUT /notes/:id of NoteDetailPage settles
DetailSaveSettles ==
  /\ detail.inflight > 0
  /\ \E x \in SubmitResults : detail' = handleSaveSettled(detail, x)
  /\ UNCHANGED <<home, create>>
  /\ UNCHANGED <<boot, gateVars, noteVars>>

\* the home page and the create page of one browser
NextPages ==
  \/ HomeMount
  \/ HomeFetchSettles
  \/ CreateMount
  \/ CreateType
  \/ CreateSubmit
  \/ CreateSettles

SpecPages == Init /\ [][NextPages]_vars

\* the two forms of one browser
NextForms ==
  \/ CreateMount
  \/ CreateType
  \/ CreateSubmit
  \/ CreateSettles
  \/ DetailMount
  \/ DetailFetchSettles
  \/ DetailType
  \/ DetailSave
  \/ DetailSaveSettles

SpecForms == Init /\ [][NextForms]_vars

\* ratelimit.limit(id) called directly, the store evaluating the call (a call
\* that never reaches the store changes nothing)
LimitCall(id) ==
  /\ Len(checks["a"]) + Len(checks["b"]) < MaxLimitCalls
  /\ \E rec \in BOOLEAN :
       LET d == CheckAndAdmit(store[Key(id)], now, rec)
       IN  /\ store' = [store EXCEPT ![Key(id)] = d.log]
           /\ checks' = [checks EXCEPT ![id] =
                           Append(@, [t |-> now, ok |-> d.success, client |-> id])]
  /\ UNCHANGED <<now, rq, passed>>
  /\ UNCHANGED <<boot, noteVars, pageVars>>

\* the limiter alone, called for two identities
NextLimit ==
  \/ Tick
  \/ \E id \in Clients : LimitCall(id)

SpecLimit == Init /\ [][NextLimit]_vars


-----------------------------------------------------------------------------
(* Properties *)

\* the checks the store evaluated for the identity of the middleware, in order
Log == checks[RateLimitId]

\* the admitted checks with a store time in lo..hi
AdmittedIn(lo, hi) == {i \in DOMAIN Log : Log[i].ok /\ lo <= Log[i].t /\ Log[i].t <= hi}

\* the admitted checks before check i that are not older than the window at check i
AdmittedBefore(i) ==
  {j \in 1..(i - 1) : Log[j].ok /\ Log[i].t - Log[j].t <= WindowSize}

\* C1: in any span of WindowSize at most Limit checks are admitted, a check is
\* denied exactly when Limit admitted checks are already in its window, and
\* ratelimit.limit resolves with the decision of the store
C1_WindowBound ==
  /\ \A s \in 0..MaxTime : Cardinality(AdmittedIn(s, s + WindowSize)) <= Limit
  /\ \A i \in DOMAIN Log : Log[i].ok <=> Cardinality(AdmittedBefore(i)) < Limit
  /\ \A p \in Procs :
       (rq[p].pc = "settled" /\ rq[p].result \in {"true", "false"})
         => (rq[p].result = "true") = Log[rq[p].k].ok

\* Limit checks admitted at one time and the next check at that time denied
C1_Witness ==
  /\ Len(Log) > Limit
  /\ \A i \in 1..Limit : Log[i].ok /\ Log[i].t = Log[1].t
  /\ ~Log[Limit + 1].ok /\ Log[Limit + 1].t = Log[1].t

\* the checks whose request was, or is about to be, handed to next()
Granted ==
  passed \cup {rq[p].k : p \in {q \in Procs : rq[q].pc = "settled" /\ rq[q].result = "true"}}

\* C2: with several processes whose store calls interleave, the requests the
\* middleware lets through within any span of WindowSize never exceed Limit
C2_ConcurrentBound ==
  \A s \in 0..MaxTime :
    Cardinality({k \in Granted : s <= Log[k].t /\ Log[k].t <= s + WindowSize}) <= Limit

\* two processes settled at the same store time: one got the last slot, the
\* other was denied
C2_Witness ==
  /\ rq["p1"].pc = "settled" /\ rq["p2"].pc = "settled"
  /\ rq["p1"].result = "true" /\ rq["p2"].result = "false"
  /\ Log[rq["p1"].k].t = Log[rq["p2"].k].t
  /\ Cardinality(AdmittedIn(Log[rq["p1"].k].t, Log[rq["p1"].k].t)) = Limit

C4_ErrorToNext ==
  \A p \in Procs :
    (rq[p].result = "rejected" /\ rq[p].pc # "settled")
      => /\ rq[p].nextCalls = <<rq[p].err>>
         /\ rq[p].err \in StoreErrors
         /\ rq[p].res.status # TooManyRequests
         /\ rq[p].ran = "error"
         /\ rq[p].pc = "done"

\* a request whose check rejected, finished on the error path
C4_Witness ==
  \E p \in Procs : rq[p].result = "rejected" /\ rq[p].pc = "done"
                   /\ rq[p].err = "StoreUnreachable"

\* C5: when the check returned success=false, rateLimiter answered 429 with the
\* message alone, next was not called and nothing downstream ran
C5_Denied429 ==
  \A p \in Procs :
    (rq[p].result = "false" /\ rq[p].pc # "settled")
      => /\ rq[p].res.status = TooManyRequests
         /\ rq[p].res.body = TooManyMessage
         /\ rq[p].nextCalls = <<>>
         /\ rq[p].ran = "none"
         /\ rq[p].pc = "done"

\* a denied request, answered
C5_Witness ==
  \E p \in Procs : rq[p].result = "false" /\ rq[p].pc = "done"

\* C6: when the check returned success=true, rateLimiter called next() with no
\* argument and the request and the response are as they were on entry
C6_AllowedUntouched ==
  \A p \in Procs :
    (rq[p].result = "true" /\ rq[p].pc = "route")
      => /\ rq[p].nextCalls = <<"noarg">>
         /\ <<rq[p].req, rq[p].res>> = rq[p].snap

\* an allowed POST with a parsed body, handed to its route
C6_Witness ==
  \E p \in Procs : rq[p].result = "true" /\ rq[p].pc = "route"
                   /\ rq[p].req.body = "parsed"

\* C7: a route handler runs only after the request's own check returned
\* success=true, and every request gets exactly one admission check
C7_GateFirst ==
  \A p \in Procs :
    /\ (rq[p].pc = "route" \/ rq[p].ran = "route") => (rq[p].result = "true" /\ rq[p].nlimit = 1)
    /\ rq[p].pc = "done" => rq[p].nlimit = 1

\* C8: when Limit checks were admitted at time t, the admitted checks in
\* [t, t + WindowSize) stay at Limit
C8_NoDoubleBurst ==
  \A t \in 0..MaxTime :
    Cardinality(AdmittedIn(t, t)) = Limit
      => Cardinality(AdmittedIn(t, t + WindowSize - 1)) = Limit

\* a burst of Limit at t and a check at t + WindowSize - 1, denied
C8_Witness ==
  \E i, j \in DOMAIN Log :
    /\ Cardinality(AdmittedIn(Log[i].t, Log[i].t)) = Limit
    /\ Log[j].t = Log[i].t + WindowSize - 1
    /\ Log[j].t > Log[i].t
    /\ ~Log[j].ok

\* C9: after a denial every further check at the same time is denied, and the
\* count the store decides on is the count of the admitted checks alone,
\* whatever denied attempts were made
C9_DenialStable ==
  /\ \A i, j \in DOMAIN Log :
       (i < j /\ Log[i].t = Log[j].t /\ ~Log[i].ok) => ~Log[j].ok
  /\ WindowCount(store[RateLimitId], now)
       = Cardinality({i \in DOMAIN Log : Log[i].ok /\ now - Log[i].t <= WindowSize})

\* two denials in a row at one time, a denied attempt recorded in the store
C9_Witness ==
  /\ \E i, j \in DOMAIN Log : i < j /\ Log[i].t = Log[j].t /\ ~Log[i].ok /\ ~Log[j].ok
  /\ \E n \in DOMAIN store[RateLimitId] : ~store[RateLimitId][n].ok

\* the admissions the store would still grant at this time
Available == Limit - WindowCount(store[RateLimitId], now)

\* the admitted checks with the earliest time of the window that was full one
\* tick ago, now older than the window
AgedOut == {i \in DOMAIN Log : Log[i].ok /\ Log[i].t = now - 1 - WindowSize}

\* the window was full one tick ago, its earliest admitted check has just
\* become older than the window, and no check was made since
JustAged ==
  /\ now >= 1
  /\ \A i \in DOMAIN Log : Log[i].t < now
  /\ Cardinality(AdmittedIn(now - 1 - WindowSize, now - 1)) = Limit
  /\ AgedOut # {}

OfClient(c) == {i \in DOMAIN Log : Log[i].client = c}

OwnAdmittedBefore(i) ==
  {j \in 1..(i - 1) : Log[j].ok /\ Log[j].client = Log[i].client
                       /\ Log[i].t - Log[j].t <= WindowSize}

\* C12: each client has a window of its own: a check of a client is admitted
\* exactly when fewer than Limit of its own checks are in the window, whatever
\* the other clients did
C12_PerClient ==
  \A i \in DOMAIN Log : Log[i].ok <=> Cardinality(OwnAdmittedBefore(i)) < Limit

\* the admitted checks of identity id before its check i, not older than the
\* window at check i
AdmittedBeforeOf(id, i) ==
  {j \in 1..(i - 1) : checks[id][j].ok /\ checks[id][i].t - checks[id][j].t <= WindowSize}

\* C13: the outcome of a check of an identity depends on the checks of that
\* identity alone, so Limit checks of 'a' and Limit checks of 'b' within one
\* second are all admitted
C13_Isolation ==
  \A id \in Identities : \A i \in DOMAIN checks[id] :
    checks[id][i].ok <=> Cardinality(AdmittedBeforeOf(id, i)) < Limit

\* Limit checks of 'a' and Limit checks of 'b' at one time, all admitted
C13_Witness ==
  /\ Len(checks["a"]) = Limit /\ Len(checks["b"]) = Limit
  /\ \A id \in {"a", "b"} : \A i \in 1..Limit :
       checks[id][i].ok /\ checks[id][i].t = checks["a"][1].t

\* C14: no process keeps anything between requests, every decision a process
\* gets is the one the state of the store at the time of its own check
\* dictates, and what the middleware then does follows that decision alone,
\* also after a restart
C14_NoLocalMemory ==
  \A p \in Procs :
    /\ rq[p].mem = "none"
    /\ (rq[p].pc = "settled" /\ rq[p].result \in {"true", "false"})
         => /\ rq[p].k \in DOMAIN Log
            /\ (rq[p].result = "true") = (Cardinality(AdmittedBefore(rq[p].k)) < Limit)
    /\ (rq[p].pc \in {"route", "done"} /\ rq[p].result \in {"true", "false"})
         => ((rq[p].pc = "route" \/ rq[p].ran = "route") <=> rq[p].result = "true")

\* a request let through although the store had denied one check before it
C14_Witness ==
  /\ rq["p1"].pc = "route" /\ rq["p1"].result = "true"
  /\ \E i \in DOMAIN Log : ~Log[i].ok

\* C16: a disconnecting client causes no decrement: its request made one store
\* call at most and the count of the store is still the count of all admitted
\* checks in the window
C16_NoCompensation ==
  /\ \A p \in Procs : rq[p].gone => rq[p].nlimit = 1
  /\ WindowCount(store[RateLimitId], now)
       = Cardinality(AdmittedIn(now - WindowSize, now))

\* the client left after its check was counted and the count still holds it
C16_Witness ==
  /\ rq["p1"].gone /\ rq["p1"].pc = "settled" /\ rq["p1"].result = "true"
  /\ now = Log[rq["p1"].k].t
  /\ WindowCount(store[RateLimitId], now) >= 1

\* C17: a request calls ratelimit.limit once, and a failed call is not repeated:
\* the failure is reported after that one call
C17_NoRetry ==
  \A p \in Procs :
    /\ rq[p].nlimit <= 1
    /\ rq[p].pc \in {"await", "settled", "route"} => rq[p].nlimit = 1
    /\ rq[p].result = "rejected" => (rq[p].nlimit = 1 /\ rq[p].pc \in {"settled", "done"})

\* a request whose only call got no answer, finished on the error path
C17_Witness ==
  \E p \in Procs : rq[p].pc = "done" /\ rq[p].err = "StoreNoAnswer"
                   /\ rq[p].nlimit = 1 /\ rq[p].ran = "error"

C18_StartupOrder ==
  /\ boot.pc = "listening" => boot.db = "connected"
  /\ boot.db = "failed" => (boot.pc = "exited" /\ boot.exitCode = 1)
  /\ boot.attempts <= 1
  /\ boot.pc # "listening"
       => (\A p \in Procs : rq[p] = Idle) /\ \A i \in Identities : checks[i] = <<>>

\* the connection failed and the process is gone
C18_Witness ==
  /\ boot.pc = "exited" /\ boot.db = "failed" /\ boot.exitCode = 1
  /\ boot.attempts = 1

\* C19: getNoteById, updateNote and deleteNote, given a well-formed id that
\* matches no stored note, answer 404 and leave the collection as it was; they
\* answer 200 only when the note was stored at the time
C19_NotFound ==
  (last.op \in {"get", "update", "delete"} /\ last.id \in NoteIds)
    => /\ (last.dbOk /\ ~last.had) => (last.status = NotFound /\ last.same)
       /\ last.status = NotFound => (~last.had /\ last.same)
       /\ last.status = Ok => last.had

\* a delete of a note that was deleted before: 404, the other note still there
C19_Witness ==
  /\ last.op = "delete" /\ last.id \in NoteIds /\ last.status = NotFound
  /\ nextId > last.id
  /\ \E i \in NoteIds : notes[i] # Absent

\* C20: every stored note has a title and a content that are present and not
\* empty
C20_RequiredFields ==
  \A i \in NoteIds :
    notes[i] # Absent => (Required(notes[i].title) /\ Required(notes[i].content))

\* the 429 response of rateLimiter was sent for r
Sent429(r) == r.res.status = TooManyRequests /\ r.res.body = TooManyMessage

\* the outcomes rateLimiter produced for r: the 429 response and its calls of next
Outcomes(r) == (IF Sent429(r) THEN 1 ELSE 0) + Len(r.nextCalls)

\* C21: once rateLimiter has finished with a request, exactly one of a 429
\* response, next() and next(error) has happened, also when res.json or next()
\* throws
C21_ExactlyOneOutcome ==
  \A p \in Procs :
    (rq[p].nlimit = 1 /\ rq[p].pc \in {"route", "done"}) => Outcomes(rq[p]) = 1

\* C22: a request for an id made after deleteNote answered 200 for it is
\* answered 404, getAllNotes lists no such id, no id has two deleteNote
\* requests answered 200, and of two deleteNote requests in flight together for
\* a note that was stored when both arrived one is answered 200 and one 404
C22_DeleteFinal ==
  /\ (last.op \in {"get", "update", "delete"} /\ last.was /\ last.dbOk)
       => last.status = NotFound
  /\ \A i \in 1..Len(last.listed) : del200[last.listed[i]] = 0
  /\ \A id \in NoteIds : del200[id] <= 1 /\ (del200[id] = 1 => notes[id] = Absent)
  /\ \A p, q \in Procs :
       (/\ p # q
        /\ dels[p].pc = "answer" /\ dels[q].pc = "answer"
        /\ dels[p].id = dels[q].id
        /\ dels[p].at = "stored" /\ dels[q].at = "stored"
        /\ dels[p].status # ServerError /\ dels[q].status # ServerError)
         => {dels[p].status, dels[q].status} = {Ok, NotFound}

\* two deleteNote requests for the same stored note, in flight together and
\* both answered by the database
C22_Witness ==
  /\ dels["p1"].pc = "answer" /\ dels["p2"].pc = "answer"
  /\ dels["p1"].id = dels["p2"].id
  /\ dels["p1"].at = "stored" /\ dels["p2"].at = "stored"
  /\ dels["p1"].status = NotFound /\ dels["p2"].status = Ok

\* C23: HomePage shows exactly one of the loading indicator, RateLimitedUI,
\* NotesNotFound and the notes grid, and NotesNotFound only after a fetch that
\* succeeded with no notes
C23_OneView ==
  /\ Cardinality(HomeView(home)) = 1
  /\ "NotesNotFound" \in HomeView(home)
       => (~Rejected(home.fetch) /\ home.fetch.data = <<>>)

\* C24: once the fetch has settled, isRateLimited is true exactly when it
\* failed with status 429, a successful fetch has stored its notes, any other
\* failure has shown the toast, and loading is false
C24_FetchOutcome ==
  home.fetch # ApiPending
    => /\ home.isRateLimited
            <=> (home.fetch.resp /\ home.fetch.status = TooManyRequests)
       /\ ~Rejected(home.fetch) => (home.notes = home.fetch.data /\ home.toasts = {})
       /\ (Rejected(home.fetch) /\ ~home.isRateLimited)
            <=> "Failed to load notes" \in home.toasts
       /\ ~home.loading

\* the fetch failed without a response: the toast, not RateLimitedUI
C24_Witness ==
  /\ home.fetch = NetworkError
  /\ ~home.isRateLimited /\ ~home.loading
  /\ home.toasts = {"Failed to load notes"}

\* C25: a create request that failed has given the user the toast of its
\* failure, and the handler has not ended in an uncaught exception
C25_AlwaysToast ==
  (create.result # ApiPending /\ Rejected(create.result))
    => /\ ~create.uncaught
       /\ create.shown = IF OptionalStatus(create.result) = TooManyRequests
                         THEN "Slow down! You're creating notes too fast"
                         ELSE "Failed to create note"

\* C26: a submit of CreatePage or a save of NoteDetailPage with a title or a
\* content that is empty or blank issues no request, shows the error toast,
\* leaves the loading or saving flag false and does not navigate
C26_ValidationSendsNothing ==
  /\ create.input = "blank"
       => /\ ~create.sent /\ create.inflight = 0
          /\ create.shown = "All fields are required"
          /\ ~create.loading /\ ~create.navigated
  /\ detail.input = "blank"
       => /\ ~detail.sent /\ detail.inflight = 0
          /\ detail.shown = "Please add a title or content"
          /\ ~detail.saving /\ ~detail.navigated

\* both forms were stopped by the validation, one on a blank title, one on an
\* empty content
C26_Witness ==
  /\ create.input = "blank" /\ create.title = " " /\ create.content = "t"
  /\ create.shown = "All fields are required"
  /\ detail.input = "blank" /\ detail.note = [title |-> "t", content |-> ""]
  /\ detail.shown = "Please add a title or content"

\* C27: while a create request is in flight the submit button is disabled, so
\* no second one is issued, and once it has settled, with any outcome, loading
\* is false and the button is enabled
C27_NoDoubleSubmit ==
  /\ create.inflight <= 1
  /\ create.inflight = 1 => (create.loading /\ ~SubmitEnabled(create))
  /\ create.result # ApiPending
       => (create.inflight = 0 /\ ~create.loading /\ SubmitEnabled(create))

\* a create request that failed without a response has settled and the button
\* is enabled again
C27_Witness ==
  /\ create.result = NetworkError /\ create.sent
  /\ ~create.loading /\ create.inflight = 0

=============================================================================
